---- MODULE Spec2Model ----
(***************************************************************************)
(* Model of sbol_utilities/define_module.py: check_namespaces,             *)
(* define_module and the command-line wrapper main.                        *)
(*                                                                         *)
(* A Document is modelled by the sequence doc.objects of its top-level     *)
(* objects.  A top-level object is a record with the two attributes the    *)
(* code reads (identity, namespace); a Module additionally carries its     *)
(* members.  Strings are TLA+ strings, so == of the source is (case-       *)
(* sensitive) string equality and + is \o.                                 *)
(***************************************************************************)
EXTENDS Naturals, Sequences, FiniteSets, TLC

\* ------------------------------------------------------------------ bounds
MaxObjs == 3      \* longest input document
MaxCalls == 2     \* define_module calls a library caller makes on one document

\* --------------------------------------------------------- input universe
\* Namespaces of the input objects; two of them differ only in case.
Namespaces == {"https://ex.org/a", "https://ex.org/A", "https://ex.org/b"}

\* Display ids of the input objects; an object may be called "module".
DisplayIds == {"1", "2", "3", "module"}

\* A top-level object as read from a file: identity is namespace/displayId.
TopLevel(ns, id) ==
    [identity |-> ns \o "/" \o id, namespace |-> ns, kind |-> "TopLevel", members |-> <<>>]

InputObjects == {TopLevel(ns, id) : ns \in Namespaces, id \in DisplayIds}

\* Identities are unique within a document.
UniqueIdentities(objects) ==
    \A i, j \in 1..Len(objects) : objects[i].identity = objects[j].identity => i = j

InputDocuments ==
    UNION {{d \in [1..n -> InputObjects] : UniqueIdentities(d)} : n \in 0..MaxObjs}

\* ------------------------------------------------------------------ state
VARIABLES
    sbol_file,  \* the top-level objects serialized in the input file
    doc,        \* doc.objects of the Document in memory
    pc,         \* "start", "lib" (a caller holds the document), "exited" (main ran)
    calls,      \* define_module calls made so far
    before,     \* doc.objects when the latest define_module call started
    chk,        \* what check_namespaces did in the latest define_module call
    ret,        \* how the latest define_module call ended
    outfile,    \* the output file
    exit        \* how main ended

vars == <<sbol_file, doc, pc, calls, before, chk, ret, outfile, exit>>

NotWritten == [written |-> FALSE, objects |-> <<>>]
Written(objects) == [written |-> TRUE, objects |-> objects]

\* -------------------------------------------------------- check_namespaces
\* all_namespaces = [o.namespace for o in doc.objects]
all_namespaces(objects) == [i \in 1..Len(objects) |-> objects[i].namespace]

\* Mutant: the test is inverted.
check_namespaces_inverted(objects) ==
    LET ns == all_namespaces(objects) IN
    IF Len(ns) = 0
    THEN [raised |-> "IndexError", is_module |-> FALSE, namespace |-> ""]
    ELSE [raised |-> "none",
          is_module |-> ~(\A i \in 1..Len(ns) : ns[i] = ns[1]),
          namespace |-> ns[1]]

\* Mutant: any() instead of all().
check_namespaces_any(objects) ==
    LET ns == all_namespaces(objects) IN
    IF Len(ns) = 0
    THEN [raised |-> "IndexError", is_module |-> FALSE, namespace |-> ""]
    ELSE [raised |-> "none",
          is_module |-> \E i \in 1..Len(ns) : ns[i] = ns[1],
          namespace |-> ns[1]]

\* Mutant: namespaces are compared ignoring case.
Lower(ns) == IF ns = "https://ex.org/A" THEN "https://ex.org/a" ELSE ns

check_namespaces_casefold(objects) ==
    LET ns == all_namespaces(objects) IN
    IF Len(ns) = 0
    THEN [raised |-> "IndexError", is_module |-> FALSE, namespace |-> ""]
    ELSE [raised |-> "none",
          is_module |-> \A i \in 1..Len(ns) : Lower(ns[i]) = Lower(ns[1]),
          namespace |-> ns[1]]

\* all(x == all_namespaces[0] for x in []) is True without indexing, but
\* namespace = all_namespaces[0] raises IndexError on the empty list, so
\* nothing is returned for an empty document.
check_namespaces(objects) ==
    LET ns == all_namespaces(objects) IN
    IF Len(ns) = 0
    THEN [raised |-> "IndexError", is_module |-> FALSE, namespace |-> ""]
    ELSE [raised |-> "none",
          is_module |-> \A i \in 1..Len(ns) : ns[i] = ns[1],
          namespace |-> ns[1]]

\* ----------------------------------------------------------- define_module
\* Mutant: the identities are collected in reverse order.
all_identities_reversed(objects) ==
    [i \in 1..Len(objects) |-> objects[Len(objects) + 1 - i].identity]

\* all_identities = [o.identity for o in doc.objects]
all_identities(objects) == [i \in 1..Len(objects) |-> objects[i].identity]

\* Mutant: module.namespace is never assigned, so the Module keeps the
\* namespace its constructor gave it.
Module_default_namespace(identity, members, namespace) ==
    [identity |-> identity, namespace |-> "http://sbols.org/unspecified_namespace",
     kind |-> "Module", members |-> members]

\* module = Module(identity); module.members = ...; module.namespace = ...
Module(identity, members, namespace) ==
    [identity |-> identity, namespace |-> namespace, kind |-> "Module", members |-> members]

\* Mutant: the object is put in front of the others.
DocAdd_prepend(objects, obj) ==
    IF \E i \in 1..Len(objects) : objects[i].identity = obj.identity
    THEN [raised |-> "ValueError", objects |-> objects]
    ELSE [raised |-> "none", objects |-> <<obj>> \o objects]

\* doc.add(module): sbol3.Document.add appends the object to doc.objects,
\* and raises ValueError when an object with that identity is already in
\* the document.
DocAdd(objects, obj) ==
    IF \E i \in 1..Len(objects) : objects[i].identity = obj.identity
    THEN [raised |-> "ValueError", objects |-> objects]
    ELSE [raised |-> "none", objects |-> Append(objects, obj)]

\* Mutant: the module is added whatever check_namespaces answered.
define_module_unguarded(objects) ==
    LET c == check_namespaces(objects) IN
    IF c.raised # "none"
    THEN [raised |-> c.raised, returned |-> "nothing", objects |-> objects, chk |-> c]
    ELSE LET module == Module(c.namespace \o "/module", all_identities(objects), c.namespace)
             added == DocAdd(objects, module)
         IN  IF added.raised # "none"
             THEN [raised |-> added.raised, returned |-> "nothing",
                   objects |-> added.objects, chk |-> c]
             ELSE [raised |-> "none", returned |-> "doc",
                   objects |-> added.objects, chk |-> c]

\* The outcome of define_module(doc): the exception that escapes it (or
\* "none"), the value it returns ("doc": the Document it was given; "None":
\* the function fell off its end), doc.objects afterwards and what
\* check_namespaces answered.
define_module(objects) ==
    LET c == check_namespaces(objects) IN
    IF c.raised # "none"
    THEN [raised |-> c.raised, returned |-> "nothing", objects |-> objects, chk |-> c]
    ELSE IF c.is_module
    THEN LET module == Module(c.namespace \o "/module", all_identities(objects), c.namespace)
             added == DocAdd(objects, module)
         IN  IF added.raised # "none"
             THEN [raised |-> added.raised, returned |-> "nothing",
                   objects |-> added.objects, chk |-> c]
             ELSE [raised |-> "none", returned |-> "doc",
                   objects |-> added.objects, chk |-> c]
    ELSE [raised |-> "none", returned |-> "None", objects |-> objects, chk |-> c]

\* How a define_module call ended, as one tag.
Outcome(r) == IF r.raised # "none" THEN r.raised ELSE r.returned

\* ---------------------------------------------------------------- actions
NoCheck == [raised |-> "none", is_module |-> FALSE, namespace |-> ""]

Init ==
    /\ sbol_file \in InputDocuments
    /\ doc = <<>>
    /\ pc = "start"
    /\ calls = 0
    /\ before = <<>>
    /\ chk = NoCheck
    /\ ret = "NotCalled"
    /\ outfile = NotWritten
    /\ exit = "running"

\* A library caller builds the Document from the file: doc = sbol3.Document();
\* doc.read(sbol_file).
Read ==
    /\ pc = "start"
    /\ doc' = sbol_file
    /\ pc' = "lib"
    /\ UNCHANGED <<sbol_file, calls, before, chk, ret, outfile, exit>>

\* A library caller calls define_module(doc) on the Document they hold.
DefineModule ==
    /\ pc \in {"start", "lib"}
    /\ calls < MaxCalls
    /\ LET r == define_module(doc) IN
         /\ doc' = r.objects
         /\ chk' = r.chk
         /\ ret' = Outcome(r)
    /\ before' = doc
    /\ calls' = calls + 1
    /\ pc' = "lib"
    /\ UNCHANGED <<sbol_file, outfile, exit>>

\* main(): read the file, call define_module, write new_doc.  An exception
\* that escapes define_module ends the process; new_doc.write on the None
\* that define_module returns for a document that is not a module raises
\* AttributeError.
main ==
    /\ pc = "start"
    /\ LET r == define_module(sbol_file) IN
         /\ doc' = r.objects
         /\ chk' = r.chk
         /\ ret' = Outcome(r)
         /\ IF r.raised # "none"
            THEN exit' = r.raised /\ outfile' = outfile
            ELSE IF r.returned = "None"
            THEN exit' = "AttributeError" /\ outfile' = outfile
            ELSE exit' = "ok" /\ outfile' = Written(r.objects)
    /\ before' = sbol_file
    /\ calls' = calls + 1
    /\ pc' = "exited"
    /\ UNCHANGED sbol_file

Next == Read \/ DefineModule \/ main

Spec == Init /\ [][Next]_vars

\* ------------------------------------------------------------- properties
\* Vocabulary of the properties.
NonEmpty(objects) == Len(objects) > 0

AllIn(objects, N) == \A i \in 1..Len(objects) : objects[i].namespace = N

Mixed(objects) ==
    \E i, j \in 1..Len(objects) : objects[i].namespace # objects[j].namespace

Modules(objects) == {i \in 1..Len(objects) : objects[i].kind = "Module"}

HasIdentity(objects, identity) ==
    \E i \in 1..Len(objects) : objects[i].identity = identity

\* C1: for a non-empty document whose objects all have namespace N (a
\* single-object document included), check_namespaces returns (True, N).
C1_UniformIsModule ==
    \A N \in Namespaces :
        (calls > 0 /\ NonEmpty(before) /\ AllIn(before, N))
            => chk = [raised |-> "none", is_module |-> TRUE, namespace |-> N]

C1_Witness ==
    /\ calls > 0
    /\ Len(before) = 3
    /\ AllIn(before, "https://ex.org/b")
    /\ chk.is_module

\* C2: for a document carrying at least two distinct namespace values,
\* wherever the differing object sits, check_namespaces returns is_module
\* False; two namespaces that differ only in case are distinct.
C2_MixedIsNotModule ==
    (calls > 0 /\ Mixed(before)) => (chk.raised = "none" /\ chk.is_module = FALSE)

C2_Witness ==
    /\ calls > 0
    /\ Len(before) = 3
    /\ before[1].namespace = "https://ex.org/a"
    /\ before[2].namespace = "https://ex.org/a"
    /\ before[3].namespace = "https://ex.org/A"
    /\ chk.is_module = FALSE

\* C3: on a document with no top-level objects check_namespaces yields the
\* explicit EmptyDocument condition, never an index-out-of-range fault, and
\* the pipeline then fails and writes nothing.
C3_EmptyDocument ==
    (calls > 0 /\ before = <<>>)
        => /\ chk.raised = "EmptyDocument"
           /\ chk.raised # "IndexError"
           /\ (pc = "exited" => (exit # "ok" /\ ~outfile.written))

\* C4: the members of the module define_module adds are exactly the
\* identities of the objects that were in the document before the module,
\* in document order.
C4_MembersInOrder ==
    ret = "doc" =>
        /\ Len(doc) = Len(before) + 1
        /\ doc[Len(doc)].kind = "Module"
        /\ Len(doc[Len(doc)].members) = Len(before)
        /\ \A i \in 1..Len(before) : doc[Len(doc)].members[i] = before[i].identity

C4_Witness ==
    /\ ret = "doc"
    /\ Len(before) = 3
    /\ doc[4].members = <<before[1].identity, before[2].identity, before[3].identity>>

\* C5: for a document whose objects share namespace N, the module's identity
\* is N followed by "/module" and the module's namespace is N.
C5_ModuleIdentity ==
    \A N \in Namespaces :
        (ret = "doc" /\ AllIn(before, N)) =>
            /\ doc[Len(doc)].kind = "Module"
            /\ doc[Len(doc)].identity = N \o "/module"
            /\ doc[Len(doc)].namespace = N

C5_Witness ==
    /\ ret = "doc"
    /\ AllIn(before, "https://ex.org/A")
    /\ doc[Len(doc)].identity = "https://ex.org/A/module"

\* C6: define_module on a non-empty document whose namespaces are not
\* uniform leaves the document as it was and builds no module.
C6_NotUniformUnchanged ==
    (calls > 0 /\ NonEmpty(before) /\ Mixed(before))
        => (doc = before /\ Modules(doc) = {} /\ ret = "None")

C6_Witness ==
    /\ calls > 0
    /\ Len(before) = 2
    /\ Mixed(before)
    /\ doc = before

\* C7: the pipeline on a valid document that is not a module ends in a
\* NotAModule outcome, not in an error caused by the absent result of
\* define_module, and writes no output file.
C7_NotAModuleOutcome ==
    (pc = "exited" /\ NonEmpty(before) /\ Mixed(before))
        => /\ exit = "NotAModule"
           /\ exit # "AttributeError"
           /\ ~outfile.written

\* C8: a define_module call on a document that an earlier call modularized
\* is rejected as AlreadyModularized or returns without effect: the
\* document is as the first call left it and holds at most one module.
C8_SecondCallRejectedOrNoOp ==
    (calls >= 2 /\ Modules(before) # {})
        => /\ ret \in {"AlreadyModularized", "doc", "None"}
           /\ doc = before
           /\ Cardinality(Modules(doc)) <= 1

\* C9 as stated: define_module on any uniform non-empty document of n
\* objects returns that document with n+1 objects, the added one the
\* module, the n others unchanged and in order.
C9_AppendsOne_Original ==
    \A N \in Namespaces :
        (calls > 0 /\ NonEmpty(before) /\ AllIn(before, N)) =>
            /\ ret = "doc"
            /\ Len(doc) = Len(before) + 1
            /\ doc[Len(doc)].kind = "Module"
            /\ SubSeq(doc, 1, Len(before)) = before

\* C9 as amended: the same, for a uniform non-empty document none of whose
\* objects already has the identity N/module.
C9_AppendsOne ==
    \A N \in Namespaces :
        (/\ calls > 0
         /\ NonEmpty(before)
         /\ AllIn(before, N)
         /\ ~HasIdentity(before, N \o "/module")) =>
            /\ ret = "doc"
            /\ Len(doc) = Len(before) + 1
            /\ doc[Len(doc)].kind = "Module"
            /\ SubSeq(doc, 1, Len(before)) = before

C9_Witness ==
    /\ ret = "doc"
    /\ Len(before) = 2
    /\ Len(doc) = 3
    /\ doc[3].kind = "Module"
    /\ <<doc[1], doc[2]>> = before

\* C10: once a module has been added, every identity among its members
\* is that of an object of the document whose namespace is the module's,
\* and the module's own identity is not among its members.
C10_MembersPresent ==
    \A m \in Modules(doc) :
        \A k \in 1..Len(doc[m].members) :
            /\ \E j \in 1..Len(doc) :
                   /\ doc[j].identity = doc[m].members[k]
                   /\ doc[j].namespace = doc[m].namespace
            /\ doc[m].members[k] # doc[m].identity

C10_Witness ==
    /\ calls = 2
    /\ Modules(doc) # {}
    /\ \E m \in Modules(doc) : Len(doc[m].members) = 3

====
